---- MODULE Spec2Model ----
(***************************************************************************)
(* hypera.dev/lib/util/retry: the retry engine (retry.go), the Backoff     *)
(* policies (backoff.go, backoff_constant.go) and the permanent-error      *)
(* wrapper, as a state machine.                                            *)
(*                                                                         *)
(* One Retry invocation is a sequential loop.  Its steps are the points    *)
(* where the rest of the world can interleave: the call of the operation   *)
(* f(ctx) (opaque, may take arbitrarily long), and the select that races   *)
(* ctx.Done() against time.After(next).  Everything the loop does between   *)
(* the return of f and the select is one step.                             *)
(***************************************************************************)
EXTENDS Integers, Sequences, FiniteSets, TLC

(* ------------------------------ bounds -------------------------------- *)
\* Operation invocations modelled per Retry call.
MaxAttempts == 4
\* Largest absolute value of the slog.Level handed to the level formatter.
MaxLevel == 20
\* Pretty handlers in existence: the root and the handlers derived from it.
MaxHandlers == 6
\* Handle and WithAttrs calls begun.
MaxOps == 3
\* Largest maxRetries given to WithMaxRetries.
MaxLimit == 3
\* Retry calls made with the same policy and context.
MaxRuns == 2
\* Calls (Next, Reset) made by the callers that share one backoff object.
MaxCalls == 3
\* How far the clock advances while they do.
MaxNow == 2
\* Width in bits of the modelled time.Duration (an int64 in the code).
DurationBits == 6

(* ------------------------------ errors -------------------------------- *)
\* An error value is the chain of its wrappers, outermost first, ending in a
\* base error; the nil error is the empty chain.
Nil == << >>

\* context.Canceled and context.DeadlineExceeded, the values of ctx.Err().
Canceled == <<"context.Canceled">>
DeadlineExceeded == <<"context.DeadlineExceeded">>

\* Plain errors an operation returns (errors.New, io.EOF).
BaseErrors == {<<"e1">>, <<"e2">>}

\* retry.go:64-66  PermanentError(err) = &permanentError{err: err}
PermanentError(err) == <<"perm">> \o err

\* fmt.Errorf("test: %w", err), the generic chaining of TestRetryPermanent.
Errorf(err) == <<"wrap">> \o err

\* A permanentError without its Unwrap method.
Unwrap_missing(err) ==
    IF err # Nil /\ Head(err) = "wrap" THEN Tail(err) ELSE Nil

\* retry.go:74-76 (*permanentError).Unwrap, and the Unwrap of a %w error; a
\* base error has no Unwrap method.
Unwrap(err) ==
    IF err # Nil /\ Head(err) \in {"perm", "wrap"} THEN Tail(err) ELSE Nil

\* A buggy errors.As that only looks at the outermost error.
As_outermostOnly(err) ==
    IF err # Nil /\ Head(err) = "perm"
    THEN [ok |-> TRUE, perm |-> err]
    ELSE [ok |-> FALSE, perm |-> Nil]

\* retry.go:103-104  errors.As(err, &perm): the first *permanentError of the
\* chain, found by repeated Unwrap.
RECURSIVE As(_)
As(err) ==
    IF err = Nil THEN [ok |-> FALSE, perm |-> Nil]
    ELSE IF Head(err) = "perm" THEN [ok |-> TRUE, perm |-> err]
    ELSE As(Unwrap(err))

\* errors.Is(err, target) as the tests use it: a nil target matches only a
\* nil error; otherwise the chain of err is searched by repeated Unwrap.
RECURSIVE Is(_, _)
Is(err, target) ==
    IF err = Nil \/ target = Nil THEN err = target
    ELSE err = target \/ Is(Unwrap(err), target)

\* What an operation may return.
OpErrors ==
    {Nil} \cup BaseErrors
    \cup {Errorf(<<"e1">>)}
    \cup {PermanentError(Nil), PermanentError(<<"e1">>),
          Errorf(PermanentError(<<"e2">>)),
          PermanentError(PermanentError(<<"e1">>))}

(* ------------------------------ backoff ------------------------------- *)
\* backoff.go:34  const Stop time.Duration = -1
Stop == -1

\* Intervals given to NewConstantBackoff (a time.Duration is any int64).
Intervals == {-2, Stop, 0, 1}

\* backoff_constant.go:39-41
NewConstantBackoff(i) == [kind |-> "constant", Interval |-> i]

\* backoff.go:51-56
WithMaxRetries(bk, m) ==
    [kind |-> "maxRetries", Backoff |-> bk, attempts |-> 0, maxRetries |-> m]

\* A Next that drifts: it returns the interval and lengthens it.
ConstantBackoffNext_drift(bk) ==
    [d |-> bk.Interval, b |-> [bk EXCEPT !.Interval = @ + 1]]

\* backoff_constant.go:60-62: the wait, and the (unchanged) policy.
ConstantBackoffNext(bk) == [d |-> bk.Interval, b |-> bk]

\* A maxRetriesBackoff that stops only on the call that reaches the limit
\* (= for >=).
maxRetriesReached_eq(n, m) == n = m

\* A maxRetriesBackoff that never stops.
maxRetriesReached_never(n, m) == FALSE

\* A maxRetriesBackoff that stops one call later (> for >=).
maxRetriesReached_gt(n, m) == n > m

\* backoff.go:60  the comparison of the incremented counter with the limit.
maxRetriesReached(n, m) == n >= m

\* backoff.go:59-64  (the wrapped policy is a ConstantBackoff here).
maxRetriesBackoffNext(bk) ==
    LET n == bk.attempts + 1 IN
    IF maxRetriesReached(n, bk.maxRetries)
    THEN [d |-> Stop, b |-> [bk EXCEPT !.attempts = n]]
    ELSE LET r == ConstantBackoffNext(bk.Backoff) IN
         [d |-> r.d, b |-> [bk EXCEPT !.attempts = n, !.Backoff = r.b]]

Policies ==
    {NewConstantBackoff(i) : i \in Intervals}
    \cup {WithMaxRetries(NewConstantBackoff(i), m) :
              i \in Intervals, m \in 0..MaxLimit}

(* ------------------------------- state -------------------------------- *)
VARIABLES
    pc,         \* "idle", "loop", "inOp", "select", "parked", "done"
    b,          \* the Backoff passed to Retry (shared across runs)
    ctxErr,     \* ctx.Err(): Nil until the context is done
    notify,     \* whether a notify callback was supplied
    err,        \* retry's local err
    next,       \* retry's local next
    ret,        \* the value Retry returned (meaningful when pc = "done")
    exit,       \* the line of retry.go whose return ended the run, 0 before
    timer,      \* the time.After timer: "none", "pending", "fired"
    wake,       \* which channel woke the parked select: "none", "ctx", "timer"
    runs,       \* Retry calls made so far
    attempts,   \* invocations of f begun in this run
    bStart,     \* the policy as it was when this run began
    opHist,     \* the errors f returned in this run, in order
    nextHist,   \* the values b.Next() returned in this run, in order
    notifyHist, \* the errors notify was called with in this run, in order
    callCtx,    \* per invocation of f: ctx.Err() when it began
    retCtx,     \* per invocation of f: ctx.Err() when it returned
    selHist,    \* per select: what was ready when it committed, and its choice
    eb,         \* an ExponentialBackoff shared by concurrent callers
    mx,         \* eb.mx: 0 when unlocked, else the caller holding it
    now,        \* the clock (time.Now), in duration units since an epoch
    mr,         \* a maxRetriesBackoff that wraps eb: attempts, maxRetries
    cb,         \* a ConstantBackoff shared by concurrent callers
    th,         \* per caller: where it is in its call, and its locals
    calls,      \* the completed ExponentialBackoff.Next calls, in lock order
    mrCalls,    \* the completed maxRetriesBackoff.Next calls
    cCalls,     \* the completed ConstantBackoff.Next calls
    cnt,        \* counts: calls begun, Next calls since the last Reset, ...
    hs,         \* the pretty handlers created so far, in order of creation
    arrs,       \* the backing arrays of the handlers' groups slices
    bufs,       \* the Buffers created so far: length and capacity
    pool,       \* per bufferPool: the Buffers that are in its sync.Pool
    mus,        \* the mutexes that are locked
    gor,        \* per goroutine: where it is in Handle or WithAttrs, its locals
    out,        \* the Write calls made on the underlying writers, in order
    ops,        \* Handle and WithAttrs calls: begun, returned
    lv          \* a level, its formatted text and what parseLevel reads back

engineVars == <<pc, b, ctxErr, notify, err, next, ret, exit, timer, wake,
                runs, attempts, bStart, opHist, nextHist, notifyHist, callCtx,
                retCtx, selHist>>

backoffVars == <<eb, mx, now, mr, cb, th, calls, mrCalls, cCalls, cnt>>

prettyVars == <<hs, arrs, bufs, pool, mus, gor, out, ops, lv>>

vars == <<engineVars, backoffVars, prettyVars>>

(* ------------------------- ExponentialBackoff ------------------------- *)
\* The callers that share the backoff objects.
Threads == {1, 2}

\* math.MaxInt64 of the modelled width: what Time.Sub saturates to.
MaxDuration == 2 ^ (DurationBits - 1) - 1

\* Signed integer arithmetic of the modelled width wraps around.
WrapDuration(x) ==
    ((x + 2 ^ (DurationBits - 1)) % (2 ^ DurationBits)) - 2 ^ (DurationBits - 1)

\* part_001:51-76  the struct: the configuration, then next and startTime
\* (0 is the zero time.Time).  Multiplier m is the fraction m[1] / m[2].
ExponentialBackoff(i, mi, me, m, j) ==
    [InitialInterval |-> i, MaxInterval |-> mi, MaxElapsedTime |-> me,
     Multiplier |-> m, Jitter |-> j, next |-> 0, startTime |-> 0]

\* Configurations: doubling; growth by a half from 2 and from 1; an elapsed
\* ceiling below and above the first wait; jitter below the initial interval
\* and jitter with InitialInterval left unset; MaxInterval left unset; a
\* multiplier below 1; an interval that stays where it starts under a ceiling
\* of the same size, so that the elapsed time decides, without and with
\* jitter.
ExpConfigs ==
    {ExponentialBackoff(1, 5, 0, <<2, 1>>, 0),
     ExponentialBackoff(2, 5, 0, <<3, 2>>, 0),
     ExponentialBackoff(1, 5, 0, <<3, 2>>, 0),
     ExponentialBackoff(2, 5, 1, <<2, 1>>, 0),
     ExponentialBackoff(1, 5, 3, <<2, 1>>, 0),
     ExponentialBackoff(2, 5, 0, <<2, 1>>, 1),
     ExponentialBackoff(1, 0, 0, <<2, 1>>, 0),
     ExponentialBackoff(0, 5, 0, <<2, 1>>, 1),
     ExponentialBackoff(1, 5, 0, <<1, 2>>, 0),
     ExponentialBackoff(2, 2, 2, <<2, 1>>, 0),
     ExponentialBackoff(2, 2, 2, <<2, 1>>, 1)}

\* part_001:119  time.Since(b.startTime): the zero time lies more than a
\* Duration can hold before any clock reading, so Sub saturates.
Since(start, t) == IF start = 0 THEN MaxDuration ELSE t - start

\* An initialisation that takes a new start time on every call.
nextInit_restart(e, t) ==
    [e EXCEPT !.next = IF e.next = 0 THEN e.InitialInterval ELSE e.next,
              !.startTime = t]

\* An initialisation that starts every call from InitialInterval.
nextInit_always(e, t) ==
    [e EXCEPT !.next = e.InitialInterval,
              !.startTime = IF e.startTime = 0 THEN t ELSE e.startTime]

\* part_001:120-125  next and startTime are initialised when they are zero.
nextInit(e, t) ==
    [e EXCEPT !.next = IF e.next = 0 THEN e.InitialInterval ELSE e.next,
              !.startTime = IF e.startTime = 0 THEN t ELSE e.startTime]

\* part_001:128-130  the values rand.Int64N(2*Jitter) - Jitter can take.
jitterDraws(j) == IF j > 0 THEN (-j)..(j - 1) ELSE {0}

\* A growth rule without the snap to MaxInterval.
grow_noSnap(nx, mi, m) == (nx * m[1]) \div m[2]

\* part_001:132-136  the growth of b.next: float64(next) >= max/multiplier
\* is next * multiplier >= max; the product is truncated to a Duration.
grow(nx, mi, m) ==
    IF nx * m[1] >= mi * m[2] THEN mi ELSE (nx * m[1]) \div m[2]

\* A growth step that starts from the jittered local value.
growFrom_jittered(e, local) == local

\* part_001:132-135  the growth step reads the field b.next, not the local
\* next that carries the jitter.
growFrom(e, local) == e.next

\* A Next whose ceiling check comes first: a call that returns Stop leaves
\* the interval as it was.
nextAfter_stopFirst(e, g, stop) == IF stop THEN e.next ELSE g

\* part_001:132-140  b.next when the call returns: the growth step precedes
\* the ceiling check, so the grown interval g is stored whether or not the
\* call goes on to return Stop.
nextAfter(e, g, stop) == g

\* part_001:138  the elapsed-time ceiling; the sum is an int64 sum.
overCeiling(elapsed, nx, me) == me > 0 /\ WrapDuration(elapsed + nx) > me

\* A Reset that forgets the start time.
resetStartTime_keep(e) == e

\* part_001:150  b.next = 0
resetNext(e) == [e EXCEPT !.next = 0]

\* part_001:151  b.startTime = time.Time{}
resetStartTime(e) == [e EXCEPT !.startTime = 0]

\* A mutex that never blocks.
mxFree_always(m) == TRUE

\* part_001:116, 147  b.mx.Lock() proceeds only when the mutex is unlocked.
mxFree(m) == m = 0

\* A caller that is not inside a call.
Idle ==
    [pc |-> "idle", via |-> "direct", elapsed |-> 0, at |-> 0, n |-> 0, c |-> 0,
     nominal |-> 0, next |-> 0]

\* The backoff objects before any caller has touched them.
BackoffIdle ==
    /\ eb = ExponentialBackoff(1, 5, 0, <<2, 1>>, 0)
    /\ mx = 0
    /\ now = 1
    /\ mr = [attempts |-> 0, maxRetries |-> 0]
    /\ cb = NewConstantBackoff(0)
    /\ th = [t \in Threads |-> Idle]
    /\ calls = << >>
    /\ mrCalls = << >>
    /\ cCalls = << >>
    /\ cnt = [begun |-> 0, n |-> 0, resets |-> 0, firstAt |-> 0]

\* The pretty handlers, their buffers and their goroutines before anything
\* has been created.
HandlersIdle ==
    /\ hs = << >>
    /\ arrs = << >>
    /\ bufs = << >>
    /\ pool = << >>
    /\ mus = {}
    /\ gor = << >>
    /\ out = << >>
    /\ ops = [begun |-> 0, handled |-> 0]

\* The pretty handler package at rest.
PrettyIdle == HandlersIdle /\ lv = << >>

\* part_001:115-143  ExponentialBackoff.Next as one caller runs it, at clock
\* reading t and with jitter draw d: the value returned and the policy after.
ExponentialBackoffNext(bk, t, d) ==
    LET elapsed == Since(bk.startTime, t)
        e1 == nextInit(bk, t)
        wait == WrapDuration(e1.next + d)
        stop == overCeiling(elapsed, wait, bk.MaxElapsedTime)
        e2 == [e1 EXCEPT !.next =
                   nextAfter(e1, grow(growFrom(e1, wait), e1.MaxInterval,
                                      e1.Multiplier), stop)]
    IN [d |-> IF stop THEN Stop ELSE wait, b |-> e2]

\* backoff.go:37-40  Backoff.Next, dispatched on the dynamic type.  (The
\* ExponentialBackoff policies handed to the engine have Jitter = 0, so the
\* jitter drawn is 0.)
BackoffNext(bk) ==
    IF bk.kind = "constant" THEN ConstantBackoffNext(bk)
    ELSE IF bk.kind = "maxRetries" THEN maxRetriesBackoffNext(bk)
    ELSE ExponentialBackoffNext(bk, now, 0)

Last(s) == s[Len(s)]

Init ==
    /\ pc = "idle"
    /\ b \in Policies
    /\ ctxErr = Nil
    /\ notify = FALSE
    /\ err = Nil
    /\ next = 0
    /\ ret = Nil
    /\ exit = 0
    /\ timer = "none"
    /\ wake = "none"
    /\ runs = 0
    /\ attempts = 0
    /\ bStart = b
    /\ opHist = << >>
    /\ nextHist = << >>
    /\ notifyHist = << >>
    /\ callCtx = << >>
    /\ retCtx = << >>
    /\ selHist = << >>
    /\ BackoffIdle
    /\ PrettyIdle

(* ----------------------------- the engine ----------------------------- *)
\* A retry that reports exhaustion with an error of its own.
onStop_synthetic(e, c) == IF c # Nil THEN c ELSE <<"retries exhausted">>

\* A retry that reports exhaustion with the last error even when the context
\* is done.
onStop_ignoreCtx(e, c) == e

\* retry.go:108-113  what Retry returns when b.Next() is Stop: e is the error
\* f just returned, c is ctx.Err().
onStop(e, c) == IF c # Nil THEN c ELSE e

\* A retry whose nil check of notify is inverted.
notifyCalls_inverted(e, ntf) == IF ntf THEN << >> ELSE <<e>>

\* retry.go:115-117  the notify calls made with the error e once the policy
\* has returned a wait: one if a callback was supplied.
notifyCalls(e, ntf) == IF ntf THEN <<e>> ELSE << >>

\* A retry that calls notify as soon as f has failed with a transient error,
\* before it asks the policy.
retryBody_notifyBeforeNext(e, bk, c, ntf) ==
    IF e = Nil
    THEN [pc |-> "done", ret |-> Nil, exit |-> 100, b |-> bk,
          nexts |-> << >>, notes |-> << >>]
    ELSE IF As(e).ok
    THEN [pc |-> "done", ret |-> Tail(As(e).perm), exit |-> 105, b |-> bk,
          nexts |-> << >>, notes |-> << >>]
    ELSE LET r == BackoffNext(bk) IN
         IF r.d = Stop
         THEN [pc |-> "done", ret |-> onStop(e, c),
               exit |-> IF c # Nil THEN 110 ELSE 112, b |-> r.b,
               nexts |-> <<r.d>>, notes |-> notifyCalls(e, ntf)]
         ELSE [pc |-> "select", ret |-> Nil, exit |-> 0, b |-> r.b,
               nexts |-> <<r.d>>, notes |-> notifyCalls(e, ntf)]

\* retry.go:99-117  the loop body from the return of f to the select: e is
\* what f returned, bk the policy, c ctx.Err(), ntf whether notify is non-nil.
\* The result names where the loop goes, what Retry returns, the returning
\* line, the policy afterwards, and the Next and notify calls made.
retryBody(e, bk, c, ntf) ==
    IF e = Nil
    THEN [pc |-> "done", ret |-> Nil, exit |-> 100, b |-> bk,
          nexts |-> << >>, notes |-> << >>]
    ELSE IF As(e).ok
    THEN [pc |-> "done", ret |-> Tail(As(e).perm), exit |-> 105, b |-> bk,
          nexts |-> << >>, notes |-> << >>]
    ELSE LET r == BackoffNext(bk) IN
         IF r.d = Stop
         THEN [pc |-> "done", ret |-> onStop(e, c),
               exit |-> IF c # Nil THEN 110 ELSE 112, b |-> r.b,
               nexts |-> <<r.d>>, notes |-> << >>]
         ELSE [pc |-> "select", ret |-> Nil, exit |-> 0, b |-> r.b,
               nexts |-> <<r.d>>, notes |-> notifyCalls(e, ntf)]

\* A select whose timer case returns nil instead of looping.
selectCase_timerReturns(ch, c) ==
    IF ch = "ctx" THEN [pc |-> "done", ret |-> c, exit |-> 121]
    ELSE [pc |-> "done", ret |-> Nil, exit |-> 123]

\* A select whose ctx.Done() case falls through to the next attempt.
selectCase_ctxContinues(ch, c) == [pc |-> "loop", ret |-> Nil, exit |-> 0]

\* retry.go:119-123  the body of the chosen select case: ctx.Done() returns
\* ctx.Err(), the timer falls through to the next iteration.
selectCase(ch, c) ==
    IF ch = "ctx" THEN [pc |-> "done", ret |-> c, exit |-> 121]
    ELSE [pc |-> "loop", ret |-> Nil, exit |-> 0]

\* retry.go:119-123  the cases of the select that can proceed: ctx.Done() is
\* closed once the context is done, time.After's channel holds a value once
\* the timer has fired.
selectReady(c, t) ==
    (IF c # Nil THEN {"ctx"} ELSE {}) \cup (IF t = "fired" THEN {"timer"} ELSE {})

\* retry.go:81-90  Retry / RetryNotify: a run begins, with or without notify.
\* The policy and the context are the caller's and keep their state.
Retry(n) ==
    /\ UNCHANGED <<backoffVars, prettyVars>>
    /\ pc \in {"idle", "done"}
    /\ runs < MaxRuns
    /\ pc' = "loop"
    /\ notify' = n
    /\ runs' = runs + 1
    /\ bStart' = b
    /\ err' = Nil
    /\ next' = 0
    /\ ret' = Nil
    /\ exit' = 0
    /\ attempts' = 0
    /\ opHist' = << >>
    /\ nextHist' = << >>
    /\ notifyHist' = << >>
    /\ callCtx' = << >>
    /\ retCtx' = << >>
    /\ selHist' = << >>
    /\ UNCHANGED <<b, ctxErr, timer, wake>>

\* retry.go:99  f(ctx) is invoked.  Nothing is checked before the call.
CallOp ==
    /\ UNCHANGED <<backoffVars, prettyVars>>
    /\ pc = "loop"
    /\ attempts < MaxAttempts
    /\ pc' = "inOp"
    /\ attempts' = attempts + 1
    /\ callCtx' = Append(callCtx, ctxErr)
    /\ UNCHANGED <<b, ctxErr, notify, err, next, ret, exit, timer, wake, runs,
                   bStart, opHist, nextHist, notifyHist, retCtx, selHist>>

\* retry.go:99-119  f returns e and the loop body runs up to the select (where
\* time.After(next) starts the timer) or to a return.
OpReturn(e) ==
    /\ UNCHANGED <<backoffVars, prettyVars>>
    /\ pc = "inOp"
    /\ LET r == retryBody(e, b, ctxErr, notify)
       IN /\ pc' = r.pc
          /\ b' = r.b
          /\ err' = e
          /\ next' = IF r.nexts = << >> THEN next ELSE r.nexts[1]
          /\ ret' = r.ret
          /\ exit' = r.exit
          /\ timer' = IF r.pc = "select" THEN "pending" ELSE "none"
          /\ opHist' = Append(opHist, e)
          /\ nextHist' = nextHist \o r.nexts
          /\ notifyHist' = notifyHist \o r.notes
          /\ retCtx' = Append(retCtx, ctxErr)
    /\ UNCHANGED <<ctxErr, notify, wake, runs, attempts, bStart, callCtx,
                   selHist>>

\* retry.go:119-123  the select looks at its channels: with one or both ready
\* it takes one of the ready cases (Go chooses among ready cases at random),
\* with none ready the goroutine parks on both.
SelectPoll ==
    /\ UNCHANGED <<backoffVars, prettyVars>>
    /\ pc = "select"
    /\ LET ready == selectReady(ctxErr, timer) IN
       IF ready = {}
       THEN /\ pc' = "parked"
            /\ UNCHANGED <<ret, exit, timer, selHist>>
       ELSE \E ch \in ready :
            LET r == selectCase(ch, ctxErr) IN
            /\ pc' = r.pc
            /\ ret' = r.ret
            /\ exit' = r.exit
            /\ timer' = "none"
            /\ selHist' = Append(selHist,
                              [ctx |-> ctxErr, timer |-> timer, case |-> ch])
    /\ UNCHANGED <<b, ctxErr, notify, err, next, wake, runs, attempts, bStart,
                   opHist, nextHist, notifyHist, callCtx, retCtx>>

\* retry.go:119-123  the parked select resumes with the case of the channel
\* that woke it.
SelectWake ==
    /\ UNCHANGED <<backoffVars, prettyVars>>
    /\ pc = "parked"
    /\ wake # "none"
    /\ LET r == selectCase(wake, ctxErr) IN
       /\ pc' = r.pc
       /\ ret' = r.ret
       /\ exit' = r.exit
    /\ wake' = "none"
    /\ timer' = "none"
    /\ UNCHANGED <<b, ctxErr, notify, err, next, runs, attempts, bStart,
                   opHist, nextHist, notifyHist, callCtx, retCtx, selHist>>

\* The caller's context is cancelled (cause Canceled) or passes its deadline,
\* at any moment: before Retry is called, while f runs (f itself may call
\* cancel), around the select, after the run.  A parked select is woken by the
\* close of ctx.Done() and is thereby committed to that case.
Cancel(cause) ==
    /\ UNCHANGED <<backoffVars, prettyVars>>
    /\ ctxErr = Nil
    /\ ctxErr' = cause
    /\ IF pc = "parked" /\ wake = "none"
       THEN /\ wake' = "ctx"
            /\ selHist' = Append(selHist,
                              [ctx |-> cause, timer |-> timer, case |-> "ctx"])
       ELSE UNCHANGED <<wake, selHist>>
    /\ UNCHANGED <<pc, b, notify, err, next, ret, exit, timer, runs, attempts,
                   bStart, opHist, nextHist, notifyHist, callCtx, retCtx>>

\* The time.After timer fires, at any moment after its creation (no clock is
\* modelled: a wait of any length, zero and negative included, ends at some
\* point).  A parked select is woken by the send and committed to that case.
TimerFire ==
    /\ UNCHANGED <<backoffVars, prettyVars>>
    /\ timer = "pending"
    /\ timer' = "fired"
    /\ IF pc = "parked" /\ wake = "none"
       THEN /\ wake' = "timer"
            /\ selHist' = Append(selHist,
                              [ctx |-> ctxErr, timer |-> "fired", case |-> "timer"])
       ELSE UNCHANGED <<wake, selHist>>
    /\ UNCHANGED <<pc, b, ctxErr, notify, err, next, ret, exit, runs, attempts,
                   bStart, opHist, nextHist, notifyHist, callCtx, retCtx>>

Next ==
    \/ \E n \in BOOLEAN : Retry(n)
    \/ CallOp
    \/ \E e \in OpErrors : OpReturn(e)
    \/ SelectPoll
    \/ SelectWake
    \/ \E cause \in {Canceled, DeadlineExceeded} : Cancel(cause)
    \/ TimerFire

Spec == Init /\ [][Next]_vars

\* The engine under the scheduling the claims on termination assume: every
\* invocation of the operation returns, the goroutine of the loop is
\* scheduled (it calls f, polls its select, resumes when woken), and a timer
\* that was started fires.  Nothing obliges the caller to call Retry or to
\* cancel the context.
Fairness ==
    /\ WF_vars(CallOp)
    /\ WF_vars(\E e \in OpErrors : OpReturn(e))
    /\ WF_vars(SelectPoll)
    /\ WF_vars(SelectWake)
    /\ WF_vars(TimerFire)

\* The policies of the runs whose termination is checked: a positive
\* constant interval, alone and under every limit.
FairPolicies ==
    {NewConstantBackoff(1)}
    \cup {WithMaxRetries(NewConstantBackoff(1), m) : m \in 0..MaxLimit}

\* retry.go:81-90  the one Retry call of a run whose termination is checked.
RetryOnce(n) == runs = 0 /\ Retry(n)

NextOneRun ==
    \/ \E n \in BOOLEAN : RetryOnce(n)
    \/ CallOp
    \/ \E e \in OpErrors : OpReturn(e)
    \/ SelectPoll
    \/ SelectWake
    \/ \E cause \in {Canceled, DeadlineExceeded} : Cancel(cause)
    \/ TimerFire

InitFair == Init /\ b \in FairPolicies

SpecFair == InitFair /\ [][NextOneRun]_vars /\ Fairness

(* ------------- the engine with a reused ExponentialBackoff ------------- *)
\* ExponentialBackoff values as the engine holds them (a Backoff).
ReusePolicies ==
    {[kind |-> "exponential"] @@ e :
        e \in {ExponentialBackoff(1, 5, 0, <<2, 1>>, 0),
               ExponentialBackoff(2, 5, 0, <<3, 2>>, 0),
               ExponentialBackoff(1, 5, 3, <<2, 1>>, 0)}}

\* retry.go:81-90  the caller holds one ExponentialBackoff and passes it to
\* every Retry call.
InitReuse ==
    /\ pc = "idle"
    /\ b \in ReusePolicies
    /\ ctxErr = Nil
    /\ notify = FALSE
    /\ err = Nil
    /\ next = 0
    /\ ret = Nil
    /\ exit = 0
    /\ timer = "none"
    /\ wake = "none"
    /\ runs = 0
    /\ attempts = 0
    /\ bStart = b
    /\ opHist = << >>
    /\ nextHist = << >>
    /\ notifyHist = << >>
    /\ callCtx = << >>
    /\ retCtx = << >>
    /\ selHist = << >>
    /\ BackoffIdle
    /\ PrettyIdle

\* Time passes while the operation runs and while the loop waits.
Elapse ==
    /\ pc \in {"inOp", "select", "parked"}
    /\ now < MaxNow
    /\ now' = now + 1
    /\ UNCHANGED <<engineVars, prettyVars, eb, mx, mr, cb, th, calls, mrCalls, cCalls, cnt>>

\* What the operation returns in these runs: success or a transient error.
ReuseErrors == {Nil, <<"e1">>}

NextReuse ==
    \/ \E n \in BOOLEAN : Retry(n)
    \/ CallOp
    \/ \E e \in ReuseErrors : OpReturn(e)
    \/ SelectPoll
    \/ SelectWake
    \/ Cancel(Canceled)
    \/ TimerFire
    \/ Elapse

SpecReuse == InitReuse /\ [][NextReuse]_vars

(* ------------------- callers sharing an ExponentialBackoff ------------- *)
\* The engine at rest while the backoff objects are exercised directly.
EngineIdle ==
    /\ pc = "idle"
    /\ b = NewConstantBackoff(0)
    /\ ctxErr = Nil
    /\ notify = FALSE
    /\ err = Nil
    /\ next = 0
    /\ ret = Nil
    /\ exit = 0
    /\ timer = "none"
    /\ wake = "none"
    /\ runs = 0
    /\ attempts = 0
    /\ bStart = b
    /\ opHist = << >>
    /\ nextHist = << >>
    /\ notifyHist = << >>
    /\ callCtx = << >>
    /\ retCtx = << >>
    /\ selHist = << >>

\* The limits of the maxRetriesBackoff that wraps the shared
\* ExponentialBackoff: one and two calls that reach the inner policy.
ExpLimits == {2, 3}

\* part_001:90-92 and backoff.go:51-56  a fresh ExponentialBackoff of any
\* configuration, and WithMaxRetries(eb, m) around it.  (The larger limit is
\* paired with the doubling configuration.)
ExpInit ==
    /\ EngineIdle
    /\ PrettyIdle
    /\ eb \in ExpConfigs
    /\ mx = 0
    /\ now = 1
    /\ mr \in {[attempts |-> 0, maxRetries |-> m] : m \in ExpLimits}
    /\ mr.maxRetries = 2 \/ eb = ExponentialBackoff(1, 5, 0, <<2, 1>>, 0)
    /\ cb = NewConstantBackoff(0)
    /\ th = [t \in Threads |-> Idle]
    /\ calls = << >>
    /\ mrCalls = << >>
    /\ cCalls = << >>
    /\ cnt = [begun |-> 0, n |-> 0, resets |-> 0, firstAt |-> 0]

\* part_001:115-116  a caller calls eb.Next() and takes the lock.
NextLock(t) ==
    /\ th[t].pc = "idle"
    /\ cnt.begun < MaxCalls
    /\ mxFree(mx)
    /\ mx' = t
    /\ th' = [th EXCEPT ![t] = [Idle EXCEPT !.pc = "init"]]
    /\ cnt' = [cnt EXCEPT !.begun = @ + 1]
    /\ UNCHANGED <<engineVars, prettyVars, eb, now, mr, cb, calls, mrCalls, cCalls>>

\* backoff.go:59-63  a caller calls Next() of the maxRetriesBackoff:
\* b.attempts.Add(1) is atomic; at the limit the call returns Stop, below it
\* the call goes on to b.Backoff.Next().
MrNext(t) ==
    /\ th[t].pc = "idle"
    /\ cnt.begun < MaxCalls
    /\ cnt' = [cnt EXCEPT !.begun = @ + 1]
    /\ UNCHANGED <<engineVars, prettyVars, eb, mx, now, cb, calls, cCalls>>
    /\ LET c == mr.attempts + 1 IN
       /\ mr' = [mr EXCEPT !.attempts = c]
       /\ IF maxRetriesReached(c, mr.maxRetries)
          THEN /\ mrCalls' = Append(mrCalls,
                      [t |-> t, c |-> c, ret |-> Stop, inner |-> 0,
                       ebBefore |-> eb, ebAfter |-> eb'])
               /\ th' = th
          ELSE /\ mrCalls' = mrCalls
               /\ th' = [th EXCEPT ![t] =
                            [Idle EXCEPT !.pc = "lock", !.via = "mr", !.c = c]]

\* backoff.go:63 into part_001:116  the delegated call takes the lock.
MrLock(t) ==
    /\ th[t].pc = "lock"
    /\ mxFree(mx)
    /\ mx' = t
    /\ th' = [th EXCEPT ![t] = [@ EXCEPT !.pc = "init"]]
    /\ UNCHANGED <<engineVars, prettyVars, eb, now, mr, cb, calls, mrCalls, cCalls, cnt>>

\* part_001:146-147  a caller calls eb.Reset() and takes the lock.
ResetLock(t) ==
    /\ th[t].pc = "idle"
    /\ cnt.begun < MaxCalls
    /\ mxFree(mx)
    /\ mx' = t
    /\ th' = [th EXCEPT ![t] = [Idle EXCEPT !.pc = "r150"]]
    /\ cnt' = [cnt EXCEPT !.begun = @ + 1]
    /\ UNCHANGED <<engineVars, prettyVars, eb, now, mr, cb, calls, mrCalls, cCalls>>

\* part_001:119-125  elapsed is taken from the start time as it is on entry;
\* then next and startTime are initialised.  (The clock is read a second time
\* only when startTime is zero, and then the first reading was not used.)
NextInit(t) ==
    /\ th[t].pc = "init"
    /\ eb' = nextInit(eb, now)
    /\ th' = [th EXCEPT ![t] =
                 [@ EXCEPT !.pc = "jitter",
                           !.elapsed = Since(eb.startTime, now),
                           !.at = now,
                           !.n = cnt.n + 1]]
    /\ cnt' = [cnt EXCEPT !.n = @ + 1,
                          !.firstAt = IF cnt.n = 0 THEN now ELSE @]
    /\ UNCHANGED <<engineVars, prettyVars, mx, now, mr, cb, calls, mrCalls, cCalls>>

\* part_001:127-130  the local next: b.next plus the jitter drawn.
NextJitter(t) ==
    /\ th[t].pc = "jitter"
    /\ \E d \in jitterDraws(eb.Jitter) :
           th' = [th EXCEPT ![t] =
                     [@ EXCEPT !.pc = "grow", !.nominal = eb.next,
                               !.next = WrapDuration(eb.next + d)]]
    /\ UNCHANGED <<engineVars, prettyVars, eb, mx, now, mr, cb, calls, mrCalls, cCalls, cnt>>

\* part_001:132-142  the growth of b.next, the ceiling, the return and the
\* deferred Unlock.
NextGrow(t) ==
    /\ th[t].pc = "grow"
    /\ LET stop == overCeiling(th[t].elapsed, th[t].next, eb.MaxElapsedTime)
           grown == nextAfter(eb, grow(growFrom(eb, th[t].next),
                                       eb.MaxInterval, eb.Multiplier), stop)
           r == [t |-> t, via |-> th[t].via, n |-> th[t].n,
                 resets |-> cnt.resets, at |-> th[t].at,
                 firstAt |-> cnt.firstAt, nominal |-> th[t].nominal,
                 wait |-> th[t].next, elapsed |-> th[t].elapsed,
                 stop |-> stop, ret |-> IF stop THEN Stop ELSE th[t].next,
                 after |-> grown]
       IN /\ eb' = [eb EXCEPT !.next = grown]
          /\ calls' = Append(calls, r)
          /\ mrCalls' = IF th[t].via = "mr"
                        THEN Append(mrCalls,
                                 [t |-> t, c |-> th[t].c, ret |-> r.ret,
                                  inner |-> Len(calls) + 1,
                                  ebBefore |-> eb, ebAfter |-> eb'])
                        ELSE mrCalls
    /\ mx' = 0
    /\ th' = [th EXCEPT ![t] = Idle]
    /\ UNCHANGED <<engineVars, prettyVars, now, mr, cb, cCalls, cnt>>

\* part_001:150  b.next = 0
ResetNext(t) ==
    /\ th[t].pc = "r150"
    /\ eb' = resetNext(eb)
    /\ th' = [th EXCEPT ![t] = [@ EXCEPT !.pc = "r151"]]
    /\ UNCHANGED <<engineVars, prettyVars, mx, now, mr, cb, calls, mrCalls, cCalls, cnt>>

\* part_001:151  b.startTime = time.Time{}, then the deferred Unlock.
ResetStart(t) ==
    /\ th[t].pc = "r151"
    /\ eb' = resetStartTime(eb)
    /\ mx' = 0
    /\ th' = [th EXCEPT ![t] = Idle]
    /\ cnt' = [cnt EXCEPT !.n = 0, !.resets = @ + 1]
    /\ UNCHANGED <<engineVars, prettyVars, now, mr, cb, calls, mrCalls, cCalls>>

\* Time passes.  The clock is read at part_001:119 and 124 only, so the
\* clock is advanced only in front of a caller that is about to read it.
Tick ==
    /\ now < MaxNow
    /\ \E t \in Threads : th[t].pc = "init"
    /\ now' = now + 1
    /\ UNCHANGED <<engineVars, prettyVars, eb, mx, mr, cb, th, calls, mrCalls, cCalls, cnt>>

ExpNext ==
    \/ \E t \in Threads : NextLock(t)
    \/ \E t \in Threads : MrNext(t)
    \/ \E t \in Threads : MrLock(t)
    \/ \E t \in Threads : ResetLock(t)
    \/ \E t \in Threads : NextInit(t)
    \/ \E t \in Threads : NextJitter(t)
    \/ \E t \in Threads : NextGrow(t)
    \/ \E t \in Threads : ResetNext(t)
    \/ \E t \in Threads : ResetStart(t)
    \/ Tick

SpecExp == ExpInit /\ [][ExpNext]_vars

(* ------------------------------ claims -------------------------------- *)
\* Whether an error chain holds a *permanentError, and the error that the
\* outermost one wraps; stated on the chain itself, without errors.As.
HasPermanent(e) == \E i \in 1..Len(e) : e[i] = "perm"
PermanentInner(e) ==
    LET i == CHOOSE j \in 1..Len(e) :
                 e[j] = "perm" /\ \A l \in 1..(j - 1) : e[l] # "perm"
    IN SubSeq(e, i + 1, Len(e))
Transient(e) == e # Nil /\ ~HasPermanent(e)
Waits(h) == {j \in 1..Len(h) : h[j] # Stop}

\* C1: for every k >= 1, when the first k-1 invocations of the operation fail
\* with a transient error and the k-th succeeds, the policy returns no Stop in
\* its first k-1 Next calls and the context is never cancelled, Retry invokes
\* the operation exactly k times and returns nil: a run whose history agrees
\* with that never makes more than k invocations, and has made exactly k and
\* returned nil when it has returned.
C1_Hyp(k) ==
    /\ ctxErr = Nil
    /\ \A i \in 1..Len(opHist) :
           /\ i < k => Transient(opHist[i])
           /\ i = k => opHist[i] = Nil
    /\ \A j \in 1..Len(nextHist) : j <= k - 1 => nextHist[j] # Stop
C1_SucceedsOnKthAttempt ==
    \A k \in 1..(MaxAttempts + 1) :
        C1_Hyp(k) =>
            /\ attempts <= k
            /\ pc = "done" => attempts = k /\ Len(opHist) = k /\ ret = Nil
C1_Witness ==
    /\ pc = "done" /\ ctxErr = Nil /\ attempts = 3 /\ ret = Nil
    /\ Transient(opHist[1]) /\ Transient(opHist[2]) /\ opHist[3] = Nil

\* C2: when the operation returns an error whose chain holds a Permanent
\* wrapper (directly or under generic wrapping), at any attempt, Retry returns
\* the inner error of the wrapper at once: that attempt is the last, Next and
\* notify were called only for the earlier attempts, and no wait follows it.
C2_PermanentShortCircuits ==
    \A i \in 1..Len(opHist) :
        HasPermanent(opHist[i]) =>
            /\ i = Len(opHist) /\ attempts = i
            /\ pc = "done"
            /\ ret = PermanentInner(opHist[i])
            /\ Len(nextHist) = i - 1
            /\ Len(notifyHist) <= i - 1
            /\ Len(selHist) = i - 1
            /\ timer = "none"
C2_Witness ==
    /\ pc = "done" /\ attempts = 2
    /\ opHist[2] = Errorf(PermanentError(<<"e2">>))
    /\ ret = <<"e2">>

\* C3: no invocation of the operation begins after the context is done,
\* whenever the cancellation fires.
C3_NoAttemptAfterCancel == \A i \in 1..Len(callCtx) : callCtx[i] = Nil

\* C4: when a select commits with the context done and the wait timer not
\* elapsed, it takes the ctx.Done() case: Retry returns ctx.Err() and the
\* operation is not invoked again; and when the context is cancelled during
\* the n-th attempt, which returns a transient error, and the timer of the
\* wait that follows has not elapsed when its select commits, Retry returns
\* context.Canceled after exactly n attempts.
C4_CancelWinsPendingWait ==
    /\ \A i \in 1..Len(selHist) :
           (selHist[i].ctx # Nil /\ selHist[i].timer # "fired") =>
               /\ selHist[i].case = "ctx"
               /\ i = Len(selHist) /\ attempts = i
               /\ pc \in {"parked", "done"}
               /\ pc = "done" => ret = selHist[i].ctx
    /\ \A n \in 1..Len(retCtx) :
           ( /\ pc = "done"
             /\ callCtx[n] = Nil /\ retCtx[n] = Canceled
             /\ Transient(opHist[n])
             /\ Len(selHist) >= n => selHist[n].timer # "fired" )
           => ret = Canceled /\ attempts = n
C4_Witness ==
    /\ pc = "done" /\ attempts = 3 /\ Len(selHist) = 3
    /\ callCtx[3] = Nil /\ retCtx[3] = Canceled
    /\ selHist[3].timer = "pending"
    /\ ret = Canceled

\* A run with a fresh WithMaxRetries policy in which every invocation failed
\* with a transient error and the context was never cancelled.
FreshMaxRetriesRun ==
    /\ pc = "done"
    /\ bStart.kind = "maxRetries" /\ bStart.attempts = 0
    /\ ctxErr = Nil
    /\ \A i \in 1..Len(opHist) : Transient(opHist[i])

\* C5: with WithMaxRetries(inner, limit), an inner policy that never returns
\* Stop, an always-failing operation and no cancellation, one Retry call
\* invokes the operation limit + 1 times.
C5_LimitPlusOneAttempts ==
    (FreshMaxRetriesRun /\ bStart.Backoff.Interval # Stop) =>
        attempts = bStart.maxRetries + 1

C7_ExhaustedReturnsLastError ==
    (pc = "done" /\ nextHist # << >> /\ Last(nextHist) = Stop
        /\ Last(retCtx) = Nil) =>
        /\ Len(opHist) = attempts
        /\ ret = opHist[attempts] /\ ret # Nil
C7_Witness ==
    /\ pc = "done" /\ nextHist # << >> /\ Last(nextHist) = Stop
    /\ Last(retCtx) = Nil
    /\ attempts = 3 /\ opHist[1] # opHist[3] /\ opHist[2] # opHist[3]
    /\ ret = opHist[3]

\* C8: when the policy returns Stop and the context is already done at that
\* moment, Retry returns ctx.Err(), not the last error of the operation.
C8_ExhaustedAfterCancelReturnsCtxErr ==
    (pc = "done" /\ nextHist # << >> /\ Last(nextHist) = Stop
        /\ Last(retCtx) # Nil) =>
        ret = Last(retCtx) /\ ret = ctxErr
C8_Witness ==
    /\ pc = "done" /\ nextHist # << >> /\ Last(nextHist) = Stop
    /\ Last(retCtx) = DeadlineExceeded
    /\ Last(opHist) \in BaseErrors
    /\ ret = DeadlineExceeded

\* C9: on a run that ends in success after n attempts, a supplied notify was
\* called exactly n - 1 times, the i-th time with the error of the i-th
\* (failed) attempt, and not for the final, successful attempt.
C9_NotifyOncePerFailureOnSuccess ==
    (pc = "done" /\ notify /\ ret = Nil) =>
        /\ Len(notifyHist) = attempts - 1
        /\ \A i \in 1..Len(notifyHist) :
               notifyHist[i] = opHist[i] /\ opHist[i] # Nil
C9_Witness ==
    /\ pc = "done" /\ notify /\ ret = Nil /\ exit = 100
    /\ attempts = 3
    /\ notifyHist = <<opHist[1], opHist[2]>>

C11_FourOutcomes ==
    pc = "done" =>
        /\ opHist # << >>
        /\ \/ ret = Nil /\ Last(opHist) = Nil
           \/ HasPermanent(Last(opHist))
                  /\ ret = PermanentInner(Last(opHist))
           \/ ctxErr # Nil /\ ret = ctxErr
           \/ Transient(Last(opHist)) /\ ret = Last(opHist)
C11_Witness ==
    /\ pc = "done" /\ attempts = 2
    /\ Last(opHist) = PermanentError(PermanentError(<<"e1">>))
    /\ ret = PermanentError(<<"e1">>)

ConstInit ==
    /\ EngineIdle
    /\ PrettyIdle
    /\ eb = ExponentialBackoff(1, 5, 0, <<2, 1>>, 0)
    /\ mx = 0
    /\ now = 1
    /\ mr = [attempts |-> 0, maxRetries |-> 0]
    /\ cb \in {NewConstantBackoff(i) : i \in Intervals}
    /\ th = [t \in Threads |-> Idle]
    /\ calls = << >>
    /\ mrCalls = << >>
    /\ cCalls = << >>
    /\ cnt = [begun |-> 0, n |-> 0, resets |-> 0, firstAt |-> 0]

\* backoff_constant.go:60  a caller enters cb.Next().
ConstCall(t) ==
    /\ th[t].pc = "idle"
    /\ cnt.begun < MaxCalls
    /\ th' = [th EXCEPT ![t] = [Idle EXCEPT !.pc = "const"]]
    /\ cnt' = [cnt EXCEPT !.begun = @ + 1]
    /\ UNCHANGED <<engineVars, prettyVars, eb, mx, now, mr, cb, calls, mrCalls, cCalls>>

\* backoff_constant.go:61  return b.Interval
ConstReturn(t) ==
    /\ th[t].pc = "const"
    /\ LET r == ConstantBackoffNext(cb)
       IN /\ cb' = r.b
          /\ cCalls' = Append(cCalls,
                 [t |-> t, ret |-> r.d, before |-> cb, after |-> r.b])
    /\ th' = [th EXCEPT ![t] = Idle]
    /\ UNCHANGED <<engineVars, prettyVars, eb, mx, now, mr, calls, mrCalls, cnt>>

ConstNext ==
    \/ \E t \in Threads : ConstCall(t)
    \/ \E t \in Threads : ConstReturn(t)

SpecConst == ConstInit /\ [][ConstNext]_vars

(* ---------------------- claims: ExponentialBackoff --------------------- *)
Abs(x) == IF x < 0 THEN -x ELSE x

\* The configuration the n-th-wait formula is stated for.
ExpWellFormed(e) ==
    /\ e.InitialInterval <= e.MaxInterval
    /\ e.Multiplier[1] >= e.Multiplier[2]

\* The nominal interval of the n-th call counted from construction or from
\* the last Reset: the previous one times the multiplier, truncated to a
\* whole unit, and never more than MaxInterval.
RECURSIVE NominalAt(_, _)
NominalAt(e, n) ==
    IF n <= 1 THEN e.InitialInterval
    ELSE LET q == (NominalAt(e, n - 1) * e.Multiplier[1]) \div e.Multiplier[2]
         IN IF q < e.MaxInterval THEN q ELSE e.MaxInterval

\* C12 as written: the n-th call that does not hit the ceiling returns a value
\* within Jitter of min(Initial * Multiplier^(n-1), Max), taken exactly
\* (both sides are scaled by the denominator of Multiplier^(n-1)).
C12_Original ==
    \A i \in 1..Len(calls) :
        LET r == calls[i]
            den == eb.Multiplier[2] ^ (r.n - 1)
            num == eb.InitialInterval * eb.Multiplier[1] ^ (r.n - 1)
            cap == eb.MaxInterval * den
            exact == IF num < cap THEN num ELSE cap
        IN (ExpWellFormed(eb) /\ ~r.stop) =>
               Abs(r.ret * den - exact) <= eb.Jitter * den

\* C12 amended: the n-th call that does not hit the ceiling returns a value
\* within Jitter of the n-th nominal interval, where each nominal interval is
\* the previous one times Multiplier truncated to a whole unit and capped at
\* Max.
C12_NthWaitWithinJitter ==
    \A i \in 1..Len(calls) :
        LET r == calls[i]
        IN (ExpWellFormed(eb) /\ ~r.stop) =>
               Abs(r.ret - NominalAt(eb, r.n)) <= eb.Jitter

\* The third call of a jittered policy returns the capped interval.
C12_Witness ==
    /\ Len(calls) = 3
    /\ eb.Jitter = 1
    /\ calls[3].n = 3
    /\ calls[2].ret = 3
    /\ calls[3].ret = eb.MaxInterval

\* The nominal interval of the n-th call of Next on a fresh instance of
\* configuration e: the initial interval, then the growth of the previous one
\* (and the initial interval again whenever that growth is zero).
RECURSIVE FreshNominal(_, _)
FreshNominal(e, n) ==
    IF n <= 1 THEN e.InitialInterval
    ELSE LET g == grow(FreshNominal(e, n - 1), e.MaxInterval, e.Multiplier)
         IN IF g = 0 THEN e.InitialInterval ELSE g

\* The elapsed time the n-th call of Next on a fresh instance works with,
\* when its first call was made at r.firstAt and this one at r.at.
FreshElapsed(r) == IF r.n = 1 THEN MaxDuration ELSE r.at - r.firstAt

\* C13: Reset leaves the interval and the start time zero, as in a fresh
\* instance, and every later call has the nominal value and the Stop decision
\* that the call of the same number has on a fresh instance.
C13_ResetIsFresh ==
    /\ (cnt.resets > 0 /\ cnt.n = 0) => (eb.next = 0 /\ eb.startTime = 0)
    /\ \A i \in 1..Len(calls) :
           LET r == calls[i]
           IN r.resets > 0 =>
                  /\ r.nominal = FreshNominal(eb, r.n)
                  /\ r.elapsed = FreshElapsed(r)
                  /\ r.stop = overCeiling(FreshElapsed(r), r.wait,
                                          eb.MaxElapsedTime)

\* A call grows the interval, time passes, Reset, and the next call starts
\* again from the initial interval and a new start time.
C13_Witness ==
    /\ Len(calls) = 2
    /\ calls[1].resets = 0 /\ calls[2].resets = 1
    /\ calls[1].at < calls[2].at
    /\ eb.MaxElapsedTime > 0
    /\ calls[2].n = 1
    /\ calls[2].nominal = eb.InitialInterval
    /\ eb.next > eb.InitialInterval

\* C14: on the first call of a fresh or just-reset instance with
\* MaxElapsedTime > 0 the elapsed time used by the ceiling check is zero, the
\* call returns Stop exactly when the post-jitter wait exceeds MaxElapsedTime
\* and the wait otherwise, and elapsed + wait does not overflow.
C14_FirstCallCeiling ==
    \A i \in 1..Len(calls) :
        LET r == calls[i]
        IN (r.n = 1 /\ eb.MaxElapsedTime > 0) =>
               /\ r.elapsed = 0
               /\ r.stop <=> r.wait > eb.MaxElapsedTime
               /\ r.ret = IF r.wait > eb.MaxElapsedTime THEN Stop ELSE r.wait
               /\ r.elapsed + r.wait <= MaxDuration

\* C15: every value returned by Next of the ExponentialBackoff, directly or
\* through the maxRetriesBackoff, is Stop returned on exhaustion (the ceiling
\* or the limit) or a non-negative duration.
C15_StopOrNonNegative ==
    /\ \A i \in 1..Len(calls) :
           \/ calls[i].stop /\ calls[i].ret = Stop
           \/ calls[i].ret >= 0
    /\ \A i \in 1..Len(mrCalls) :
           \/ mrCalls[i].inner = 0 /\ mrCalls[i].ret = Stop
           \/ mrCalls[i].inner > 0 /\ calls[mrCalls[i].inner].stop
                                   /\ mrCalls[i].ret = Stop
           \/ mrCalls[i].ret >= 0

\* The callers that are inside a call made through the maxRetriesBackoff.
InMrCall == {t \in Threads : th[t].pc # "idle" /\ th[t].via = "mr"}

NoReset ==
    cnt.resets = 0 /\ \A t \in Threads : th[t].pc \notin {"r150", "r151"}

\* C17: with no Reset, the nominal values that the callers sharing the
\* ExponentialBackoff have received in N calls are, as a multiset, the first N
\* nominal values of a single caller.
C17_SerializedNominals ==
    NoReset =>
        LET N == Len(calls)
            single == [k \in 1..N |-> FreshNominal(eb, k)]
        IN \A v \in {calls[i].nominal : i \in 1..N} \cup {single[k] : k \in 1..N} :
               Cardinality({i \in 1..N : calls[i].nominal = v})
                   = Cardinality({k \in 1..N : single[k] = v})

\* Two callers have made three calls between them, one through the wrapper.
C17_Witness ==
    /\ NoReset
    /\ Len(calls) = 3
    /\ calls[1].t # calls[2].t
    /\ calls[3].via = "mr"
    /\ calls[1].nominal = 2 /\ calls[2].nominal = 4 /\ calls[3].nominal = 5

\* C18 as written: with InitialInterval > 0, whenever no call holds the lock
\* the interval is zero exactly when the start time is the zero instant.
C18_Original ==
    (eb.InitialInterval > 0 /\ mx = 0) => (eb.next = 0 <=> eb.startTime = 0)

\* C18 amended: with InitialInterval > 0, MaxInterval > 0 and Multiplier >= 1,
\* whenever no call holds the lock the interval is zero exactly when the start
\* time is the zero instant.
C18_ConsistentWhenUnlocked ==
    (/\ eb.InitialInterval > 0
     /\ eb.MaxInterval > 0
     /\ eb.Multiplier[1] >= eb.Multiplier[2]
     /\ mx = 0) => (eb.next = 0 <=> eb.startTime = 0)

\* Two callers: a Next, a Reset and a Next again, and the lock is free.
C18_Witness ==
    /\ eb.InitialInterval > 0 /\ eb.MaxInterval > 0
    /\ mx = 0
    /\ cnt.resets = 1
    /\ Len(calls) = 2
    /\ calls[1].resets = 0 /\ calls[2].resets = 1
    /\ calls[1].t # calls[2].t
    /\ eb.next # 0 /\ eb.startTime # 0

(* ----------------------- claims: ConstantBackoff ----------------------- *)
\* C20: every call of ConstantBackoff.Next, whatever the callers' interleaving,
\* returns the interval the instance was constructed with and leaves the
\* instance as it was.
C20_ConstantIsStateless ==
    \A i \in 1..Len(cCalls) :
        /\ cCalls[i].ret = cCalls[1].before.Interval
        /\ cCalls[i].after = cCalls[i].before
        /\ cb = cCalls[1].before

\* Two callers were inside Next at once; both got the interval, and one of
\* them is inside a further call.
C20_Witness ==
    /\ Len(cCalls) = 2
    /\ cCalls[1].t = 2 /\ cCalls[2].t = 1
    /\ th[2].pc = "const"
    /\ cb.Interval = 1
    /\ cCalls[1].ret = 1 /\ cCalls[2].ret = 1

(* ------------------------ claims: the engine, II ----------------------- *)
\* The attempts of this run that failed with a transient error.
TransientFailures == {i \in 1..Len(opHist) : Transient(opHist[i])}

C22_AttemptsSequential ==
    /\ Len(opHist) = IF pc = "inOp" THEN attempts - 1 ELSE attempts
    /\ Len(callCtx) = attempts
    /\ pc \in {"inOp", "loop"} =>
           /\ Len(opHist) = Len(nextHist)
           /\ Len(selHist) = Len(nextHist)
           /\ \A j \in 1..Len(nextHist) :
                  /\ Transient(opHist[j])
                  /\ nextHist[j] # Stop
                  /\ selHist[j].case = "timer"
                  /\ selHist[j].timer = "fired"

\* The third attempt is in progress after two waits that ran to their end.
C22_Witness ==
    /\ pc = "inOp" /\ attempts = 3
    /\ Len(opHist) = 2 /\ Len(selHist) = 2
    /\ ctxErr = Nil
    /\ selHist[1].case = "timer" /\ selHist[2].case = "timer"

\* The policy bk after k calls of Next, for the policies handed to the engine.
AfterNexts(bk, k) ==
    IF bk.kind = "maxRetries" THEN [bk EXCEPT !.attempts = @ + k] ELSE bk

\* C23: Next is called once for every attempt that failed with a transient
\* error and never otherwise: the Next calls of a run are as many as its
\* transient failures, and the policy is where that many calls take it (a
\* success or a permanent failure leaves it alone).
C23_NextOncePerTransientFailure ==
    pc # "idle" =>
        /\ Len(nextHist) = Cardinality(TransientFailures)
        /\ b = AfterNexts(bStart, Cardinality(TransientFailures))

\* Two transient failures, then a permanent error under a generic wrapper.
C23_Witness ==
    /\ pc = "done" /\ exit = 105
    /\ bStart.kind = "maxRetries"
    /\ Len(opHist) = 3
    /\ opHist[3] = Errorf(PermanentError(<<"e2">>))
    /\ Len(nextHist) = 2
    /\ b.attempts = bStart.attempts + 2

\* C24: notify is called only after the policy has returned a wait, before
\* that wait begins, with the error of the attempt that just failed, and not
\* for the attempt whose Next returned Stop.
C24_NotifyOnlyForWaits ==
    /\ ~notify => notifyHist = << >>
    /\ notify =>
           /\ Len(notifyHist) = Cardinality(Waits(nextHist))
           /\ \A j \in 1..Len(notifyHist) :
                  nextHist[j] # Stop /\ notifyHist[j] = opHist[j]
    /\ \A j \in 1..Len(nextHist) :
           nextHist[j] = Stop => (j = Len(nextHist) /\ Len(notifyHist) < j)

\* A run with notify ends on Stop at its third failure: notify saw the first
\* two errors only.
C24_Witness ==
    /\ pc = "done" /\ exit = 112 /\ notify
    /\ Len(opHist) = 3
    /\ opHist[1] # opHist[2]
    /\ nextHist[3] = Stop
    /\ notifyHist = <<opHist[1], opHist[2]>>

\* C25: Retry returns nil only when the most recent invocation of the
\* operation returned nil.
C25_NilOnlyOnSuccess ==
    (pc = "done" /\ ret = Nil) => Last(opHist) = Nil

\* A Retry call that has not returned.
Running == pc \in {"loop", "inOp", "select", "parked"}

\* The run has used up the attempts that are modelled.
AtBound == pc = "loop" /\ attempts = MaxAttempts

C27_JitterDoesNotCompound ==
    \A i \in 1..Len(calls) :
        LET r == calls[i]
        IN /\ r.nominal = FreshNominal(eb, r.n)
           /\ r.after = grow(FreshNominal(eb, r.n), eb.MaxInterval,
                             eb.Multiplier)
           /\ IF eb.Jitter > 0
              THEN r.wait - r.nominal \in (-eb.Jitter)..(eb.Jitter - 1)
              ELSE r.wait = r.nominal

\* Two calls drew -1 and returned less than their nominal interval; the third
\* call works from the capped nominal interval all the same.
C27_Witness ==
    /\ Len(calls) = 3
    /\ eb.Jitter = 1
    /\ calls[1].nominal = 2 /\ calls[1].wait = 1
    /\ calls[2].nominal = 4 /\ calls[2].wait = 3
    /\ calls[3].nominal = 5

\* C28 as written: each Next call turns the interval into MaxInterval when it
\* is >= MaxInterval / Multiplier and into interval * Multiplier otherwise
\* (the exact product); and for InitialInterval <= MaxInterval, Multiplier >= 1
\* the interval never decreases, never exceeds MaxInterval and stays at
\* MaxInterval once there.
C28_Original ==
    \A i \in 1..Len(calls) :
        LET r == calls[i]
            m == eb.Multiplier
        IN /\ IF r.nominal * m[1] >= eb.MaxInterval * m[2]
              THEN r.after = eb.MaxInterval
              ELSE r.after * m[2] = r.nominal * m[1]
           /\ ExpWellFormed(eb) =>
                  /\ r.after >= r.nominal
                  /\ r.after <= eb.MaxInterval
                  /\ r.nominal = eb.MaxInterval => r.after = eb.MaxInterval

\* C28 amended: the same, with interval * Multiplier truncated to a whole
\* unit of time.
C28_GrowthRule ==
    \A i \in 1..Len(calls) :
        LET r == calls[i]
            m == eb.Multiplier
        IN /\ IF r.nominal * m[1] >= eb.MaxInterval * m[2]
              THEN r.after = eb.MaxInterval
              ELSE /\ r.after * m[2] <= r.nominal * m[1]
                   /\ (r.after + 1) * m[2] > r.nominal * m[1]
           /\ ExpWellFormed(eb) =>
                  /\ r.after >= r.nominal
                  /\ r.after <= eb.MaxInterval
                  /\ r.nominal = eb.MaxInterval => r.after = eb.MaxInterval

\* The interval grows by truncation (3 from 2 at a multiplier of 3/2, then 4
\* from 3), or snaps to MaxInterval and stays there.
C28_Witness ==
    /\ Len(calls) = 3
    /\ \/ /\ calls[2].nominal = 3 /\ calls[2].after = 4
          /\ calls[3].after = eb.MaxInterval
       \/ /\ calls[2].nominal = 4 /\ calls[2].after = eb.MaxInterval
          /\ calls[3].nominal = eb.MaxInterval
          /\ calls[3].after = eb.MaxInterval

\* C29: with MaxElapsedTime = 0 no Next call returns Stop.
C29_NoCeilingNoStop ==
    eb.MaxElapsedTime = 0 => \A i \in 1..Len(calls) : calls[i].ret # Stop

(* ------------------ claims: reuse of an ExponentialBackoff ------------- *)
\* C30: the engine never resets a policy.  A Retry call that is handed an
\* ExponentialBackoff which an earlier call has used (its interval and start
\* time are set) gets as its first value the interval that earlier call left
\* behind, and the start time stays the one set in the earlier call.
C30_ReuseContinues ==
    (runs >= 2 /\ bStart.next # 0) =>
        /\ bStart.startTime # 0
        /\ b.startTime = bStart.startTime
        /\ nextHist # << >> =>
               /\ nextHist[1] \in {bStart.next, Stop}
               /\ nextHist[1] = Stop => bStart.MaxElapsedTime > 0

\* The first run left the interval at 4 (after 1 and 2); later, in the second
\* run, the first wait is 4 and the start time is still that of the first run.
C30_Witness ==
    /\ runs = 2
    /\ bStart.InitialInterval = 1 /\ bStart.next = 4
    /\ nextHist = <<4>>
    /\ now > b.startTime

(* ------------------- claims: reuse of a WithMaxRetries ----------------- *)
\* Whether the next call of Next on the policy would return Stop.
StopPending(bk) == BackoffNext(bk).d = Stop

Delegated == {i \in 1..Len(mrCalls) : mrCalls[i].inner # 0}

\* The counter values callers have drawn: by completed calls, by calls that
\* are still inside the inner policy.
Drawn ==
    {mrCalls[i].c : i \in 1..Len(mrCalls)} \cup {th[t].c : t \in InMrCall}

SameEpoch(i, j) ==
    /\ i \in 1..Len(calls) /\ j \in 1..Len(calls)
    /\ i < j
    /\ calls[i].resets = calls[j].resets

\* C33 as stated: once a Next call has returned Stop because of the
\* elapsed-time ceiling, every later Next call made without a Reset in
\* between returns Stop too, whatever jitter is drawn.
C33_Original ==
    \A i, j \in 1..Len(calls) :
        (SameEpoch(i, j) /\ calls[i].stop) =>
            calls[j].stop /\ calls[j].ret = Stop

\* C33 amended: the same for a policy without jitter whose interval does not
\* shrink (0 < InitialInterval <= MaxInterval, Multiplier >= 1) and whose
\* MaxInterval leaves room for the elapsed time in a Duration.
C33_StopIsStickyWithoutJitter ==
    (/\ eb.Jitter = 0
     /\ ExpWellFormed(eb)
     /\ eb.InitialInterval > 0
     /\ eb.MaxInterval + MaxNow <= MaxDuration) =>
        \A i, j \in 1..Len(calls) :
            (SameEpoch(i, j) /\ calls[i].stop) =>
                calls[j].stop /\ calls[j].ret = Stop

\* The interval stays at 2 under a ceiling of 2, without jitter.  The first call returns 2;
\* one unit of time later the second call returns Stop, and so does the
\* third.
C33_Witness ==
    /\ eb.Jitter = 0 /\ eb.MaxInterval = 2 /\ eb.MaxElapsedTime = 2
    /\ Len(calls) = 3
    /\ calls[3].resets = 0
    /\ calls[1].ret = 2
    /\ calls[2].elapsed = 1 /\ calls[2].stop /\ calls[2].ret = Stop
    /\ calls[3].stop /\ calls[3].ret = Stop


\* C34: a Next call that returns Stop advances the policy as any other call
\* does.  Every call, stopped or not, leaves behind the growth of its nominal
\* interval; and whenever the policy is unlocked after n calls since its
\* construction or last Reset, its interval is the n-fold growth of the
\* initial interval and its start time is the clock reading of the first of
\* them, whichever of the n calls returned Stop.
C34_StopStillAdvances ==
    /\ \A i \in 1..Len(calls) :
           LET r == calls[i]
           IN /\ r.after = grow(r.nominal, eb.MaxInterval, eb.Multiplier)
              /\ r.stop => r.ret = Stop
    /\ (mx = 0 /\ cnt.n > 0) =>
           /\ eb.next = grow(FreshNominal(eb, cnt.n), eb.MaxInterval,
                             eb.Multiplier)
           /\ eb.startTime = cnt.firstAt
           /\ eb.startTime # 0

\* Initial interval 2, ceiling 1: the second call returns Stop, and yet it
\* has grown the interval from 4 to 5; the start time is that of the first
\* call.
C34_Witness ==
    /\ eb.InitialInterval = 2 /\ eb.MaxElapsedTime = 1
    /\ mx = 0
    /\ Len(calls) = 2 /\ cnt.n = 2
    /\ calls[1].ret = 2
    /\ calls[2].stop /\ calls[2].ret = Stop /\ calls[2].nominal = 4
    /\ eb.next = 5
    /\ eb.startTime = calls[1].at

(* ======================= slog/pretty: level formatter ================== *)
\* log/slog: the four named levels, as format.go:60-87 uses them.
LevelDebug == -4
LevelInfo == 0
LevelWarn == 4
LevelError == 8

\* format.go:34, 37-40  the ANSI escape sequences, each one token of a text.
ansiReset == "ESC[0m"
ansiLevelDebug == "ESC[1;35m"
ansiLevelInfo == "ESC[1;36m"
ansiLevelWarn == "ESC[1;33m"
ansiLevelError == "ESC[1;91m"

\* A text is the sequence of its characters.
DigitChars == <<"0", "1", "2", "3", "4", "5", "6", "7", "8", "9">>

\* strconv: the decimal digits of a natural number.
RECURSIVE Digits(_)
Digits(n) ==
    IF n < 10 THEN <<DigitChars[n + 1]>>
    ELSE Digits(n \div 10) \o <<DigitChars[(n % 10) + 1]>>

\* README.md:220-222  Buffer.AppendInt: strconv.AppendInt(b.buf, i, 10), a
\* minus sign in front of a negative number.
AppendInt(buf, i) ==
    IF i < 0 THEN buf \o <<"-">> \o Digits(-i) ELSE buf \o Digits(i)

\* format.go:92-102
appendLevelDelta(buf, delta) ==
    IF delta = 0 THEN buf
    ELSE AppendInt(IF delta > 0 THEN buf \o <<"+">> ELSE buf \o <<"-">>, delta)

\* format.go:59-88  the switch: the label, the base level and the colour of
\* the band a level falls into.
levelBand(l) ==
    IF l < LevelInfo
    THEN [label |-> <<"D", "B", "G">>, base |-> LevelDebug, ansi |-> ansiLevelDebug]
    ELSE IF l < LevelWarn
    THEN [label |-> <<"I", "N", "F">>, base |-> LevelInfo, ansi |-> ansiLevelInfo]
    ELSE IF l < LevelError
    THEN [label |-> <<"W", "R", "N">>, base |-> LevelWarn, ansi |-> ansiLevelWarn]
    ELSE [label |-> <<"E", "R", "R">>, base |-> LevelError, ansi |-> ansiLevelError]

\* format.go:57-90  DefaultLevelFormatter(color) applied to an empty buffer:
\* the colour first and its reset (deferred) last when colour is on.
DefaultLevelFormatter(color, l) ==
    LET band == levelBand(l)
        body == appendLevelDelta(band.label, l - band.base)
    IN IF color THEN <<band.ansi>> \o body \o <<ansiReset>> ELSE body

\* part_002:16  the labels levelRegexp accepts.
LevelLabels ==
    {<<"D", "B", "G">>, <<"I", "N", "F">>, <<"W", "R", "N">>, <<"E", "R", "R">>}

IsDigit(c) == \E k \in 1..10 : DigitChars[k] = c

\* strconv.Atoi of a run of digits.
RECURSIVE DigitsValue(_)
DigitsValue(ds) ==
    IF ds = << >> THEN 0
    ELSE 10 * DigitsValue(SubSeq(ds, 1, Len(ds) - 1))
         + (CHOOSE k \in 0..9 : DigitChars[k + 1] = ds[Len(ds)])

\* part_002:16, 151  levelRegexp.FindStringSubmatch(s): the leftmost label,
\* and after it, when there is one, a sign followed by the longest run of
\* digits (group 2; empty when the sign is not followed by a digit).
FindLevel(s) ==
    LET starts == {i \in 1..(Len(s) - 2) : SubSeq(s, i, i + 2) \in LevelLabels}
    IN IF starts = {} THEN [found |-> FALSE, label |-> << >>, delta |-> << >>]
       ELSE LET i == CHOOSE j \in starts : \A k \in starts : j <= k
                rest == SubSeq(s, i + 3, Len(s))
                n == IF rest = << >> \/ rest[1] \notin {"+", "-"} THEN 0
                     ELSE CHOOSE m \in 0..(Len(rest) - 1) :
                            /\ \A k \in 2..(m + 1) : IsDigit(rest[k])
                            /\ m + 2 <= Len(rest) => ~IsDigit(rest[m + 2])
                IN [found |-> TRUE, label |-> SubSeq(s, i, i + 2),
                    delta |-> IF n = 0 THEN << >> ELSE SubSeq(rest, 1, n + 1)]

\* part_002:150-173  parseLevel: the base level of the label plus the delta
\* (strconv.Atoi reads the sign).
parseLevel(s) ==
    LET g == FindLevel(s)
        delta == IF g.delta = << >> THEN 0
                 ELSE IF g.delta[1] = "-" THEN -DigitsValue(Tail(g.delta))
                 ELSE DigitsValue(Tail(g.delta))
        base == IF g.label = <<"D", "B", "G">> THEN LevelDebug
                ELSE IF g.label = <<"I", "N", "F">> THEN LevelInfo
                ELSE IF g.label = <<"W", "R", "N">> THEN LevelWarn
                ELSE LevelError
    IN base + delta

\* A level is about to be formatted, with colour or without.
LevelInit ==
    /\ EngineIdle
    /\ BackoffIdle
    /\ HandlersIdle
    /\ lv \in {[pc |-> "level", l |-> l, color |-> c, text |-> << >>, parsed |-> 0] :
                  l \in (-MaxLevel)..MaxLevel, c \in BOOLEAN}

\* part_003:110  h.opts.LevelFormatter(buf, record.Level)
LevelFormat ==
    /\ lv.pc = "level"
    /\ lv' = [lv EXCEPT !.pc = "text",
                        !.text = DefaultLevelFormatter(lv.color, lv.l)]
    /\ UNCHANGED <<engineVars, backoffVars, hs, arrs, bufs, pool, mus,
                   gor, out, ops>>

\* part_002:150-173  the test reads the level back from the line.
LevelParse ==
    /\ lv.pc = "text"
    /\ lv' = [lv EXCEPT !.pc = "parsed", !.parsed = parseLevel(lv.text)]
    /\ UNCHANGED <<engineVars, backoffVars, hs, arrs, bufs, pool, mus,
                   gor, out, ops>>

LevelNext == LevelFormat \/ LevelParse

SpecLevel == LevelInit /\ [][LevelNext]_vars

(* --------------------- claims: the level formatter --------------------- *)
\* The label and the base level of the band that contains a level, stated
\* from the bounds of the bands.
BandOf(l) ==
    IF l < 0 THEN [label |-> <<"D", "B", "G">>, base |-> -4]
    ELSE IF l < 4 THEN [label |-> <<"I", "N", "F">>, base |-> 0]
    ELSE IF l < 8 THEN [label |-> <<"W", "R", "N">>, base |-> 4]
    ELSE [label |-> <<"E", "R", "R">>, base |-> 8]

\* C36: with colour disabled the text of a level is the label of its band,
\* followed by nothing when the level is the band's base level and otherwise
\* by exactly one sign character and the absolute offset from the base level.
C36_LabelSignOffset ==
    (lv.pc # "level" /\ ~lv.color) =>
        LET band == BandOf(lv.l)
            off == lv.l - band.base
        IN lv.text =
               band.label
               \o (IF off = 0 THEN << >>
                   ELSE <<IF off > 0 THEN "+" ELSE "-">> \o Digits(Abs(off)))

(* ========================= slog/pretty: the handler =================== *)
\* The goroutines that call Handle and WithAttrs.
Goroutines == {1, 2}

\* README.md:138  const poolMaxBufferSize = 16 << 10
poolMaxBufferSize == 16 * 1024

\* README.md:176-178  newBuffer: make([]byte, 0, 1024).  A Buffer is known by
\* the length and the capacity of its byte slice.
newBuffer == [len |-> 0, cap |-> 1024]

\* part_003:105-139  the bytes one Handle or WithAttrs call appends to its
\* buffer: a short line (the only length used while handlers are derived),
\* and lines that bring the buffer to the pool's limit and one past it.
ShortRecord == 100
RecordSizes == {ShortRecord, poolMaxBufferSize, poolMaxBufferSize + 1}

\* README.md:199-252  the Append methods, b.buf = append(b.buf, ...): the
\* capacity stays when the bytes fit; otherwise append moves to a new array
\* whose capacity the runtime chooses, the least that holds them or more.
appendCaps(bf, n) ==
    IF bf.len + n <= bf.cap THEN {bf.cap}
    ELSE {bf.len + n, 2 * (bf.len + n)}

\* A Reset that leaves the bytes in place.
bufferReset_keep(bf) == bf

\* README.md:279-281  Buffer.Reset: b.buf = b.buf[:0]
bufferReset(bf) == [bf EXCEPT !.len = 0]

\* A pool that takes every buffer back.
poolKeeps_always(bf) == TRUE

\* README.md:164  Free puts back the buffers of at most poolMaxBufferSize.
poolKeeps(bf) == bf.cap <= poolMaxBufferSize

\* A Lock that never blocks.
muFree_always(held, m) == TRUE

\* part_003:146  h.mu.Lock() proceeds only when the mutex is unlocked.
muFree(held, m) == m \notin held

\* Group names, one for each WithGroup call.
Names == <<"a", "b", "c", "d", "e", "f", "g", "h">>
GroupNames == {Names[i] : i \in 1..Len(Names)}

\* A []string is a slice header: its backing array (0 for the nil slice) and
\* its length; the capacity is the size of the array.
NilSlice == [arr |-> 0, len |-> 0]
SliceCap(as, sl) == IF sl.arr = 0 THEN 0 ELSE Len(as[sl.arr])
SliceElems(as, sl) == IF sl.arr = 0 THEN << >> ELSE SubSeq(as[sl.arr], 1, sl.len)

\* runtime.growslice for a slice of fewer than 256 elements, as append at
\* part_003:179 reaches it: the capacity doubles (0 -> 1 -> 2 -> 4 -> 8).
growCap(old, n) == IF n > 2 * old THEN n ELSE 2 * old

\* part_003:179  append(h2.groups, name): with room left the name is stored
\* in the backing array the slice already has, otherwise in a new, larger
\* array that receives a copy of the elements.
appendName(as, sl, name) ==
    IF sl.len < SliceCap(as, sl)
    THEN [arrs |-> [as EXCEPT ![sl.arr] = [@ EXCEPT ![sl.len + 1] = name]],
          sl |-> [sl EXCEPT !.len = @ + 1]]
    ELSE LET old == SliceElems(as, sl)
             new == [i \in 1..growCap(SliceCap(as, sl), sl.len + 1) |->
                        IF i <= sl.len THEN old[i]
                        ELSE IF i = sl.len + 1 THEN name ELSE ""]
         IN [arrs |-> Append(as, new),
             sl |-> [arr |-> Len(as) + 1, len |-> sl.len + 1]]

\* part_003:68-92  NewHandler: a handler on writer w with a mutex and a
\* buffer pool of its own.  (chain is not a field: it keeps the group names
\* the handler was derived with, for the claims.)
NewHandler(w, m, p) ==
    [w |-> w, mu |-> m, bufferPool |-> p, attrsPrefix |-> << >>,
     groupPrefix |-> << >>, groups |-> NilSlice, chain |-> << >>]

\* part_003:183-193  clone: every field is copied; mu and bufferPool are
\* pointers and groups is a slice header, so those are shared.
clone(h) ==
    [w |-> h.w, mu |-> h.mu, bufferPool |-> h.bufferPool,
     attrsPrefix |-> h.attrsPrefix, groupPrefix |-> h.groupPrefix,
     groups |-> h.groups, chain |-> h.chain]

\* part_003:177-180  the handler WithGroup(name) returns for a non-empty name,
\* and the backing arrays afterwards.
withGroup(h, name, as) ==
    LET r == appendName(as, h.groups, name)
    IN [h |-> [clone(h) EXCEPT !.groupPrefix = @ \o <<name, ".">>,
                               !.groups = r.sl,
                               !.chain = Append(@, name)],
        arrs |-> r.arrs]

\* A goroutine that is in neither Handle nor WithAttrs.
GIdle ==
    [pc |-> "idle", op |-> "none", h |-> 0, buf |-> 0, acquired |-> 0,
     passed |-> << >>, writes |-> 0, h2 |-> NewHandler(0, 0, 0)]

\* Handlers that exist or are being made by a WithAttrs call in progress.
HandlersInMaking ==
    Len(hs) + Cardinality({g \in Goroutines : gor[g].op = "WithAttrs"})

\* part_003:173-181  WithGroup, by a caller that is alone with the handlers:
\* an empty name returns the receiver, any other a clone with the name added.
\* (Every call uses a name of its own.)
WithGroup(h, name) ==
    /\ h \in 1..Len(hs)
    /\ name \in {"", Names[Len(hs)]}
    /\ IF name = ""
       THEN UNCHANGED <<hs, arrs>>
       ELSE /\ HandlersInMaking < MaxHandlers
            /\ LET r == withGroup(hs[h], name, arrs)
               IN /\ hs' = Append(hs, r.h)
                  /\ arrs' = r.arrs
    /\ UNCHANGED <<engineVars, backoffVars, bufs, pool, mus, gor, out, ops, lv>>

\* README.md:158-160  Acquire, p.pool.Get(): goroutine g takes buffer src out
\* of the pool of handler h, or (src = 0) gets a new one from New; a sync.Pool
\* may hand out a new item while it holds others.
Acquire(g, h, src, op) ==
    /\ gor[g].pc = "idle"
    /\ ops.begun < MaxOps
    /\ h \in 1..Len(hs)
    /\ src \in pool[hs[h].bufferPool] \cup {0}
    /\ ops' = [ops EXCEPT !.begun = @ + 1]
    /\ bufs' = IF src = 0 THEN Append(bufs, newBuffer) ELSE bufs
    /\ pool' = [pool EXCEPT ![hs[h].bufferPool] = @ \ {src}]
    /\ LET id == IF src = 0 THEN Len(bufs) + 1 ELSE src
       IN gor' = [gor EXCEPT ![g] =
                     [GIdle EXCEPT !.pc = "build", !.op = op, !.h = h,
                                   !.buf = id, !.acquired = bufs'[id].len,
                                   !.h2 = clone(hs[h])]]
    /\ UNCHANGED <<engineVars, backoffVars, hs, arrs, mus, out, lv>>

\* part_003:100-103  Handle begins: the buffer is acquired.
HandleAcquire(g, h, src) ==
    /\ g \in Goroutines
    /\ Acquire(g, h, src, "Handle")

\* part_003:153-160  WithAttrs with a non-empty list begins: the clone is
\* made and the buffer is acquired.
WithAttrsAcquire(g, h, src) ==
    /\ HandlersInMaking < MaxHandlers
    /\ Acquire(g, h, src, "WithAttrs")

\* part_003:105-144  Handle builds the line in its buffer, n bytes in all (the
\* line always holds the separators, so it is not empty); the attributes of the
\* record go through ReplaceAttr together with h.groups.
HandleBuild(g, n) ==
    /\ gor[g].pc = "build" /\ gor[g].op = "Handle"
    /\ \E c \in appendCaps(bufs[gor[g].buf], n) :
           bufs' = [bufs EXCEPT ![gor[g].buf] = [len |-> @.len + n, cap |-> c]]
    /\ gor' = [gor EXCEPT ![g] =
                  [@ EXCEPT !.pc = "lock",
                            !.passed = SliceElems(arrs, hs[gor[g].h].groups)]]
    /\ UNCHANGED <<engineVars, backoffVars, hs, arrs, pool, mus, out, ops, lv>>

\* part_003:146-148  h.mu.Lock(); the goroutine then is inside
\* buf.WriteTo(h.w), that is h.w.Write(b.buf).
HandleLock(g) ==
    /\ gor[g].pc = "lock"
    /\ muFree(mus, hs[gor[g].h].mu)
    /\ mus' = mus \cup {hs[gor[g].h].mu}
    /\ gor' = [gor EXCEPT ![g] = [@ EXCEPT !.pc = "write"]]
    /\ UNCHANGED <<engineVars, backoffVars, hs, arrs, bufs, pool, out, ops, lv>>

\* README.md:193-196  the Write call on the underlying writer returns.
HandleWrite(g) ==
    /\ gor[g].pc = "write"
    /\ out' = Append(out, [g |-> g, w |-> hs[gor[g].h].w,
                           n |-> bufs[gor[g].buf].len])
    /\ gor' = [gor EXCEPT ![g] = [@ EXCEPT !.pc = "unlock", !.writes = @ + 1]]
    /\ UNCHANGED <<engineVars, backoffVars, hs, arrs, bufs, pool, mus, ops, lv>>

\* part_003:147  the deferred h.mu.Unlock(), the first of the two defers to run.
HandleUnlock(g) ==
    /\ gor[g].pc = "unlock"
    /\ mus' = mus \ {hs[gor[g].h].mu}
    /\ gor' = [gor EXCEPT ![g] = [@ EXCEPT !.pc = "free"]]
    /\ UNCHANGED <<engineVars, backoffVars, hs, arrs, bufs, pool, out, ops, lv>>

\* README.md:163-168  Free, as the deferred call of goroutine g runs it: a
\* buffer within the limit is reset and put back, a larger one is left to
\* the garbage collector.
Free(g) ==
    LET id == gor[g].buf
        p == hs[gor[g].h].bufferPool
    IN IF poolKeeps(bufs[id])
       THEN /\ bufs' = [bufs EXCEPT ![id] = bufferReset(@)]
            /\ pool' = [pool EXCEPT ![p] = @ \cup {id}]
       ELSE UNCHANGED <<bufs, pool>>

\* part_003:103  the deferred bufferPool.Free(buf); Handle returns.
HandleFree(g) ==
    /\ gor[g].pc = "free" /\ gor[g].op = "Handle"
    /\ Free(g)
    /\ gor' = [gor EXCEPT ![g] = GIdle]
    /\ ops' = [ops EXCEPT !.handled = @ + 1]
    /\ UNCHANGED <<engineVars, backoffVars, hs, arrs, mus, out, lv>>

\* part_003:162-168  WithAttrs writes the attributes into the buffer (each
\* goes through ReplaceAttr together with h.groups) and adds the text to the
\* prefix of the clone.
WithAttrsBuild(g, n) ==
    /\ gor[g].pc = "build" /\ gor[g].op = "WithAttrs"
    /\ \E c \in appendCaps(bufs[gor[g].buf], n) :
           bufs' = [bufs EXCEPT ![gor[g].buf] = [len |-> @.len + n, cap |-> c]]
    /\ gor' = [gor EXCEPT ![g] =
                  [@ EXCEPT !.pc = "free",
                            !.passed = SliceElems(arrs, hs[gor[g].h].groups),
                            !.h2 = [@ EXCEPT !.attrsPrefix =
                                       @ \o hs[gor[g].h].groupPrefix \o <<"k=v ">>]]]
    /\ UNCHANGED <<engineVars, backoffVars, hs, arrs, pool, mus, out, ops, lv>>

\* part_003:160, 169  the deferred Free; WithAttrs returns the clone.
WithAttrsFree(g) ==
    /\ gor[g].pc = "free" /\ gor[g].op = "WithAttrs"
    /\ Free(g)
    /\ hs' = Append(hs, gor[g].h2)
    /\ gor' = [gor EXCEPT ![g] = GIdle]
    /\ UNCHANGED <<engineVars, backoffVars, arrs, mus, out, ops, lv>>

\* One goroutine derives handlers from a root and logs through them.
GroupsInit ==
    /\ EngineIdle
    /\ BackoffIdle
    /\ hs = <<NewHandler(1, 1, 1)>>
    /\ arrs = << >>
    /\ bufs = << >>
    /\ pool = <<{}>>
    /\ mus = {}
    /\ gor = [g \in Goroutines |-> GIdle]
    /\ out = << >>
    /\ ops = [begun |-> 0, handled |-> 0]
    /\ lv = << >>

\* What Get returns to a goroutine that uses the pool alone: the buffer it
\* put back, a new one when there is none.
PooledFirst(p) == IF pool[p] = {} THEN {0} ELSE pool[p]

\* part_003:100-103 and 153-160  the calls of the one goroutine.
HandleAcquireAlone(h, src) == src \in PooledFirst(1) /\ HandleAcquire(1, h, src)
WithAttrsAcquireAlone(h, src) ==
    src \in PooledFirst(1) /\ WithAttrsAcquire(1, h, src)

GroupsNext ==
    \/ \E h \in 1..MaxHandlers, name \in GroupNames \cup {""} : WithGroup(h, name)
    \/ \E h \in 1..MaxHandlers, src \in 0..MaxOps : HandleAcquireAlone(h, src)
    \/ HandleBuild(1, ShortRecord)
    \/ HandleLock(1)
    \/ HandleWrite(1)
    \/ HandleUnlock(1)
    \/ HandleFree(1)
    \/ \E h \in 1..MaxHandlers, src \in 0..MaxOps : WithAttrsAcquireAlone(h, src)
    \/ WithAttrsBuild(1, ShortRecord)
    \/ WithAttrsFree(1)

SpecGroups == GroupsInit /\ [][GroupsNext]_vars

\* Two goroutines log through a handler, a handler derived from it, and a
\* second handler made by NewHandler on the same writer; the second goroutine
\* also derives handlers with WithAttrs.
HandleInit ==
    /\ EngineIdle
    /\ BackoffIdle
    /\ LET root == NewHandler(1, 1, 1)
           r == withGroup(root, Names[1], << >>)
       IN /\ hs = <<root, r.h, NewHandler(1, 2, 2)>>
          /\ arrs = r.arrs
    /\ bufs = << >>
    /\ pool = <<{}, {}>>
    /\ mus = {}
    /\ gor = [g \in Goroutines |-> GIdle]
    /\ out = << >>
    /\ ops = [begun |-> 0, handled |-> 0]
    /\ lv = << >>

HandleNext ==
    \/ \E g \in Goroutines, h \in 1..MaxHandlers, src \in 0..MaxOps :
           HandleAcquire(g, h, src)
    \/ \E g \in Goroutines : HandleBuild(g, ShortRecord)
    \/ \E g \in Goroutines : HandleLock(g)
    \/ \E g \in Goroutines : HandleWrite(g)
    \/ \E g \in Goroutines : HandleUnlock(g)
    \/ \E g \in Goroutines : HandleFree(g)
    \/ \E h \in 1..MaxHandlers, src \in 0..MaxOps : WithAttrsAcquire(2, h, src)
    \/ WithAttrsBuild(2, ShortRecord)
    \/ WithAttrsFree(2)

SpecHandle == HandleInit /\ [][HandleNext]_vars

\* Two goroutines log lines of every size through one handler.
PoolInit ==
    /\ EngineIdle
    /\ BackoffIdle
    /\ hs = <<NewHandler(1, 1, 1)>>
    /\ arrs = << >>
    /\ bufs = << >>
    /\ pool = <<{}>>
    /\ mus = {}
    /\ gor = [g \in Goroutines |-> GIdle]
    /\ out = << >>
    /\ ops = [begun |-> 0, handled |-> 0]
    /\ lv = << >>

PoolNext ==
    \/ \E g \in Goroutines, src \in 0..MaxOps : HandleAcquire(g, 1, src)
    \/ \E g \in Goroutines, n \in RecordSizes : HandleBuild(g, n)
    \/ \E g \in Goroutines : HandleLock(g)
    \/ \E g \in Goroutines : HandleWrite(g)
    \/ \E g \in Goroutines : HandleUnlock(g)
    \/ \E g \in Goroutines : HandleFree(g)

SpecPool == PoolInit /\ [][PoolNext]_vars

(* ------------------------ claims: the pretty handler ------------------- *)
\* The goroutines whose call has handed h.groups to ReplaceAttr.
PastBuild == {g \in Goroutines : gor[g].pc \in {"lock", "write", "unlock", "free"}}

\* C35: WithGroup and WithAttrs return a new handler and leave every other
\* handler as it was: whatever handlers have been derived, the groups of each
\* handler are the chain of names it was derived with, and that chain is what
\* its Handle and WithAttrs calls pass to ReplaceAttr.
C35_OwnGroupChain ==
    /\ \A i \in 1..Len(hs) : SliceElems(arrs, hs[i].groups) = hs[i].chain
    /\ \A g \in PastBuild : gor[g].passed = hs[gor[g].h].chain


(* ------------------ claims: Handle, the mutex and the buffers ---------- *)
\* The goroutines inside a call that holds a buffer.
Busy == {g \in Goroutines : gor[g].pc # "idle"}

\* The goroutines inside the Write call of a Handle.
Writing == {g \in Goroutines : gor[g].pc = "write"}

\* The goroutines whose Handle call has seen its Write return.
Written == {g \in Goroutines : gor[g].op = "Handle" /\ gor[g].pc \in {"unlock", "free"}}

\* C37: a Handle call makes exactly one Write, and makes it holding the mutex
\* of its handler; a handler made by WithAttrs (or WithGroup) has the mutex of
\* the handler it was made from, so two Handle calls on handlers of one family
\* are never inside Write together; and a buffer in use is held by one call
\* only and is not in a pool.
C37_OneWriteUnderSharedMutex ==
    /\ \A g \in Goroutines :
           /\ gor[g].writes = IF g \in Written THEN 1 ELSE 0
           /\ gor[g].pc \in {"write", "unlock"} => hs[gor[g].h].mu \in mus
    /\ Len(out) = ops.handled + Cardinality(Written)
    /\ hs[2].mu = hs[1].mu
    /\ \A i \in 4..Len(hs) : \E j \in 1..(i - 1) :
           /\ hs[i].mu = hs[j].mu
           /\ hs[i].bufferPool = hs[j].bufferPool
           /\ hs[i].w = hs[j].w
    /\ \A g1, g2 \in Writing :
           hs[gor[g1].h].mu = hs[gor[g2].h].mu => g1 = g2
    /\ \A g1, g2 \in Busy : gor[g1].buf = gor[g2].buf => g1 = g2
    /\ \A g \in Busy : \A p \in 1..Len(pool) : gor[g].buf \notin pool[p]

\* One goroutine is inside Write on the first handler while the other, on
\* the handler derived from it, waits for the mutex; a record is already out.
C37_Witness ==
    /\ gor[1].pc = "write" /\ gor[1].h = 1
    /\ gor[2].pc = "lock" /\ gor[2].h = 2
    /\ Len(out) = 1


(* ------------------------- claims: the bufferPool ---------------------- *)
\* C38: every buffer that Acquire returns has length 0 (whatever was
\* appended to it before it was freed), and a buffer whose capacity is above
\* poolMaxBufferSize when it is freed is not put back: nothing in the pool is
\* longer than 0 or larger than the limit.
C38_AcquireEmptyPoolBounded ==
    /\ \A g \in Goroutines : gor[g].acquired = 0
    /\ \A p \in 1..Len(pool) : \A id \in pool[p] :
           /\ bufs[id].len = 0
           /\ bufs[id].cap <= poolMaxBufferSize
    /\ \A id \in 1..Len(bufs) :
           bufs[id].cap > poolMaxBufferSize =>
               /\ \A p \in 1..Len(pool) : id \notin pool[p]
               /\ \A g \in Goroutines :
                      gor[g].buf = id => gor[g].pc \in {"lock", "write", "unlock", "free"}

\* A buffer that grew to exactly the limit was freed and has been acquired
\* again, empty, while a buffer that grew beyond the limit was freed and is
\* in no pool and in no hand.
C38_Witness ==
    /\ \E g \in Goroutines :
           /\ gor[g].pc = "build"
           /\ bufs[gor[g].buf].cap = poolMaxBufferSize
           /\ bufs[gor[g].buf].len = 0
    /\ \E id \in 1..Len(bufs) :
           /\ bufs[id].cap > poolMaxBufferSize
           /\ id \notin pool[1]
           /\ \A g \in Goroutines : gor[g].buf # id

================================================================================
